---------------------------- MODULE Spec2Model ----------------------------
(***************************************************************************)
(* SunoSaathi: the frame acquisition and landmark-extraction pipeline.     *)
(*                                                                         *)
(* Four parts of the front end are modelled:                               *)
(*   - the keypoint extraction functions (pure),                           *)
(*   - DeafUserInterface: live recording, start / stop / recognition,      *)
(*   - DatasetProcessor: the batch loop over the listed videos,            *)
(*   - VideoProcessor: the manifest-driven batch queue with its watchdog.  *)
(* App renders exactly one of the three components, so the variable        *)
(* `mode` fixes which component's handlers can run in a behaviour.         *)
(***************************************************************************)
EXTENDS Integers, Sequences, FiniteSets, Bags, TLC

(***************************************************************************)
(* Bounds of the model (not program constants).                            *)
(***************************************************************************)
MaxSeed == 2
MaxFrames == 2
MaxCycles == 2
MaxPending == 2
NumVideos == 20
MaxRuns == 2
MaxInFlight == 2
MaxStaleJobs == 1
MaxCrashes == 1
NumManifest == 2
MaxCommands == 1
MaxStarts == 1
MaxOvershoot == 0
MaxActivities == 4
MaxReplays == 4
MaxInits == 2
MaxServiceInits == 2
MaxServiceCalls == 5

(***************************************************************************)
(* Program constants.                                                      *)
(***************************************************************************)
PoseCount == 33
FaceCount == 468
HandCount == 21
KeypointCount == 543
RecyclePeriod == 20
MaxRetries == 3

VARIABLES
    mode,            \* which component App renders
    kpResults,       \* keypoints: the engine result handed to a result handler
    kpBuffer,        \* keypoints: the frames built from kpResults
    kpPath,          \* keypoints: which component built the frame
    \* ---- DeafUserInterface (live recording)
    cameraStarted,   \* useState cameraStarted
    holisticRef,     \* holisticRef.current is set
    liveEngines,     \* Holistic instances created by initializeCamera and not closed
    isRecording,     \* useState isRecording
    isRecordingRef,  \* isRecordingRef.current
    framesRef,       \* framesRef.current
    frameCountRef,   \* frameCountRef.current
    isProcessing,    \* useState isProcessing
    error,           \* useState error
    recognizedText,  \* useState recognizedText: "" or the cycle whose response set it
    demoOverrideRef, \* demoOverrideRef.current is set
    rendered,        \* the isRecording / isProcessing values of the committed render
    liveSend,        \* engine sends issued by the camera's onFrame and not yet returned
    livePending,     \* bag of awaited requests of stopRecording / processDemoSign
    liveCycle,       \* number of startRecording calls so far
    liveSubmissions, \* recognition submissions made: <<cycle, frames>>, in order
    \* ---- DatasetProcessor (batch loop)
    processedCount,  \* useState processedCount
    dpIsProcessing,  \* useState isProcessing of DatasetProcessor
    dpEngine,        \* holisticRef.current: [id, sent] of the open engine instance
    dpCallback,      \* the job whose onResults closure is registered on dpEngine
    dpClosureCount,  \* processedCount as captured by the running startProcessing
    dpPC,            \* position of startProcessing
    dpI,             \* index of `video` in the for loop
    dpVideoEl,       \* state of the job's video element
    dpFrames,        \* `frames` of the job
    dpFrameId,       \* `frameId` of the job
    isProcessingFrame, \* `isProcessingFrame` of the job
    dpLoop,          \* position of the job's processNextFrame loop
    dpSends,         \* engine sends issued and not yet returned: [job, engine]
    dpSaving,        \* onended of the current job awaits saveData
    dpLastSave,      \* the save request made by the current job, if any, and its outcome
    dpRuns,          \* completed runs of startProcessing
    dpRunRecycles,   \* engine re-creations in the current (or last) run
    dpRunCrashes,    \* send errors in the current (or last) run
    dpJobCrashed,    \* a send of the current job has thrown
    dpPrevCrashed,   \* a send of the previous job of this run had thrown
    dpUsedBefore,    \* at job start, the engine instance had already received a send
    \* ---- VideoProcessor (manifest queue)
    currentIndex,    \* useState currentIndex
    processingStatus, \* useState processingStatus: [tag, n]
    currentFramesRef, \* currentFramesRef.current
    frameIdRef,      \* frameIdRef.current
    vpVideo,         \* the shared video element: paused, playing or ended
    vpActivities,    \* bag of pending timers and awaits: [kind, job, n]
    vpCommands,      \* clicks so far: [start, move], move counting Skip Next and Prev
    vpSession,       \* the job for which processNextVideo last reset the buffer
    vpGaveUp,        \* jobs given up ('Max retries exceeded') whose session collected no frame
    vpSkipped,       \* the job Skip Next abandoned while processing, until it is started anew
    vpCrashed,       \* jobs with a send that threw since processNextVideo last started them
    vpLastSave,      \* the save request [label, frames] made by the last step, if any
    \* ---- MediaPipeService
    svcHolistic,     \* this.holistic: 0 for null, else the id of the Holistic instance
    svcCamera,       \* this.camera: 0 for null, else the id of the Camera instance
    isInitialized,   \* this.isInitialized
    svcCreated,      \* Holistic and Camera instances constructed so far: [engines, cameras]
    svcRunning,      \* the Camera instances that are started
    svcCloses,       \* close() calls received by each Holistic instance
    svcSends,        \* sends issued by onFrame: [engine, closed], closed when the engine was
    svcCompleted,    \* an initialize() has completed and cleanup() was not called since
    svcLast,         \* the last call of the service: [call, outcome, prev]
    svcCalls         \* number of calls of the service so far

kpVars == <<kpResults, kpBuffer, kpPath>>

liveVars == <<cameraStarted, holisticRef, liveEngines, isRecording, isRecordingRef, framesRef,
              frameCountRef, isProcessing, error, recognizedText, demoOverrideRef,
              rendered, liveSend, livePending, liveCycle, liveSubmissions>>

dpVars == <<processedCount, dpIsProcessing, dpEngine, dpCallback, dpClosureCount, dpPC,
            dpI, dpVideoEl, dpFrames, dpFrameId, isProcessingFrame, dpLoop, dpSends,
            dpSaving, dpLastSave, dpRuns, dpRunRecycles, dpRunCrashes, dpJobCrashed,
            dpPrevCrashed, dpUsedBefore>>

vpVars == <<currentIndex, processingStatus, currentFramesRef, frameIdRef, vpVideo,
            vpActivities, vpCommands, vpSession, vpGaveUp, vpSkipped,
            vpCrashed, vpLastSave>>

svcVars == <<svcHolistic, svcCamera, isInitialized, svcCreated, svcRunning, svcCloses,
             svcSends, svcCompleted, svcLast, svcCalls>>

\* What an action of one component leaves alone: the other components.
kpRest == <<mode, liveVars, dpVars, vpVars, svcVars>>

liveRest == <<mode, kpVars, dpVars, vpVars, svcVars>>

dpRest == <<mode, kpVars, liveVars, vpVars, svcVars>>

vpRest == <<mode, kpVars, liveVars, dpVars, svcVars>>

svcRest == <<mode, kpVars, liveVars, dpVars, vpVars>>

(***************************************************************************)
(* Keypoint extraction.                                                    *)
(*                                                                         *)
(* An engine result has four landmark groups; a group is either absent     *)
(* (falsy in the source) or a list of landmarks with x, y, z.  The model   *)
(* gives the landmark i of a detected group the coordinates                *)
(* (seed, i, g) so that groups and positions can be told apart.            *)
(***************************************************************************)
Groups == {"pose", "face", "left", "right"}

GroupCode(g) ==
    CASE g = "pose" -> 1 [] g = "face" -> 2 [] g = "left" -> 3 [] g = "right" -> 4

NominalSize(g) ==
    CASE g = "pose" -> PoseCount [] g = "face" -> FaceCount
      [] g = "left" -> HandCount [] g = "right" -> HandCount

Absent == [present |-> FALSE, landmarks |-> <<>>]

Detected(g, seed) ==
    [present |-> TRUE,
     landmarks |-> [i \in 1..NominalSize(g) |-> [x |-> seed, y |-> i, z |-> GroupCode(g)]]]

\* The results object delivered by the engine: the groups in `det` detected
\* with their nominal size, the others absent.
EngineResults(det, seed) ==
    [poseLandmarks      |-> IF "pose"  \in det THEN Detected("pose", seed)  ELSE Absent,
     faceLandmarks      |-> IF "face"  \in det THEN Detected("face", seed)  ELSE Absent,
     leftHandLandmarks  |-> IF "left"  \in det THEN Detected("left", seed)  ELSE Absent,
     rightHandLandmarks |-> IF "right" \in det THEN Detected("right", seed) ELSE Absent]

ZeroTriple == <<0, 0, 0>>

Zeros(count) == [i \in 1..count |-> ZeroTriple]

Triples(landmarks) == [i \in 1..Len(landmarks) |-> <<landmarks[i].x, landmarks[i].y, landmarks[i].z>>]

\* `if (group) group.forEach(push [x,y,z]) else for (i < count) push [0,0,0]`
PointsOrZeros(group, count) ==
    IF group.present THEN Triples(group.landmarks) ELSE Zeros(count)

\* DeafUserInterface.extractKeypoints written without its zero-fill branches.
DeafExtractKeypointsNoFill(results) ==
    Triples(results.poseLandmarks.landmarks)
      \o Triples(results.faceLandmarks.landmarks)
      \o Triples(results.leftHandLandmarks.landmarks)
      \o Triples(results.rightHandLandmarks.landmarks)

\* DeafUserInterface.extractKeypoints: pose, face, left hand, right hand.
DeafExtractKeypoints(results) ==
    PointsOrZeros(results.poseLandmarks, PoseCount)
      \o PointsOrZeros(results.faceLandmarks, FaceCount)
      \o PointsOrZeros(results.leftHandLandmarks, HandCount)
      \o PointsOrZeros(results.rightHandLandmarks, HandCount)

\* DatasetProcessor.extractKeypoints written with a face fill of the wrong width.
DatasetExtractKeypointsShortFace(results) ==
    PointsOrZeros(results.poseLandmarks, PoseCount)
      \o PointsOrZeros(results.faceLandmarks, HandCount)
      \o PointsOrZeros(results.leftHandLandmarks, HandCount)
      \o PointsOrZeros(results.rightHandLandmarks, HandCount)

\* DatasetProcessor.extractKeypoints: pose, face, left hand, right hand.
DatasetExtractKeypoints(results) ==
    PointsOrZeros(results.poseLandmarks, PoseCount)
      \o PointsOrZeros(results.faceLandmarks, FaceCount)
      \o PointsOrZeros(results.leftHandLandmarks, HandCount)
      \o PointsOrZeros(results.rightHandLandmarks, HandCount)

\* VideoProcessor.handleResults, helper addPoints(landmarks, count).
addPoints(landmarks, count) == PointsOrZeros(landmarks, count)

\* VideoProcessor.handleResults: pose, left hand, right hand, face.
VideoExtractKeypoints(results) ==
    addPoints(results.poseLandmarks, PoseCount)
      \o addPoints(results.leftHandLandmarks, HandCount)
      \o addPoints(results.rightHandLandmarks, HandCount)
      \o addPoints(results.faceLandmarks, FaceCount)

\* MediaPipeService.extractKeypoints: pose, left hand, right hand, face.
ServiceExtractKeypoints(results) ==
    PointsOrZeros(results.poseLandmarks, PoseCount)
      \o PointsOrZeros(results.leftHandLandmarks, HandCount)
      \o PointsOrZeros(results.rightHandLandmarks, HandCount)
      \o PointsOrZeros(results.faceLandmarks, FaceCount)

KPInit ==
    /\ \E det \in SUBSET Groups, seed \in 1..MaxSeed : kpResults = EngineResults(det, seed)
    /\ kpBuffer = <<>>
    /\ kpPath = "none"

\* handleMediaPipeResults while recording: push {frame_id, keypoints}.
KPDeafResult ==
    /\ kpPath = "none"
    /\ kpBuffer' = Append(kpBuffer, [frame_id |-> Len(kpBuffer),
                                     keypoints |-> DeafExtractKeypoints(kpResults)])
    /\ kpPath' = "deaf"
    /\ UNCHANGED kpResults
    /\ UNCHANGED kpRest

\* DatasetProcessor's onResults callback: frames.push({frame_id: frameId++, keypoints}).
KPDatasetResult ==
    /\ kpPath = "none"
    /\ kpBuffer' = Append(kpBuffer, [frame_id |-> Len(kpBuffer),
                                     keypoints |-> DatasetExtractKeypoints(kpResults)])
    /\ kpPath' = "dataset"
    /\ UNCHANGED kpResults
    /\ UNCHANGED kpRest

\* MediaPipeService.handleResults: this.onResults(extractKeypoints(results), results);
\* the keypoints handed to the callback are kept as a frame.
KPServiceResult ==
    /\ kpPath = "none"
    /\ kpBuffer' = Append(kpBuffer, [frame_id |-> Len(kpBuffer),
                                     keypoints |-> ServiceExtractKeypoints(kpResults)])
    /\ kpPath' = "service"
    /\ UNCHANGED kpResults
    /\ UNCHANGED kpRest

\* VideoProcessor.handleResults: currentFramesRef.current.push({frame_id, keypoints}).
KPVideoResult ==
    /\ kpPath = "none"
    /\ kpBuffer' = Append(kpBuffer, [frame_id |-> Len(kpBuffer),
                                     keypoints |-> VideoExtractKeypoints(kpResults)])
    /\ kpPath' = "video"
    /\ UNCHANGED kpResults
    /\ UNCHANGED kpRest

(***************************************************************************)
(* DeafUserInterface: live recording.                                      *)
(*                                                                         *)
(* A frame of a session buffer is {frame_id, origin}: origin names the     *)
(* recording cycle (or batch job) whose code issued the send that produced *)
(* the frame.  The keypoints of a frame are the subject of the keypoint    *)
(* specification above and are left out of the session buffers.            *)
(*                                                                         *)
(* React commits a state update after the handler that made it has         *)
(* returned; `rendered` is the committed render, which decides what the    *)
(* controls dock offers.  A handler dispatched before the commit is the    *)
(* handler of the previous render.  The commit runs before any later task  *)
(* (a timer, a network response, a camera frame, an engine result).        *)
(***************************************************************************)
Committed ==
    rendered = [cameraStarted |-> cameraStarted, isRecording |-> isRecording,
                isProcessing |-> isProcessing]

LiveInit ==
    /\ cameraStarted = FALSE
    /\ holisticRef = FALSE
    /\ liveEngines = 0
    /\ isRecording = FALSE
    /\ isRecordingRef = FALSE
    /\ framesRef = <<>>
    /\ frameCountRef = 0
    /\ isProcessing = FALSE
    /\ error = "none"
    /\ recognizedText = 0
    /\ demoOverrideRef = FALSE
    /\ rendered = [cameraStarted |-> FALSE, isRecording |-> FALSE, isProcessing |-> FALSE]
    /\ liveSend = {}
    /\ livePending = EmptyBag
    /\ liveCycle = 0
    /\ liveSubmissions = <<>>

\* initializeCamera: new Holistic, onResults, holisticRef.current = holistic,
\* new Camera, await camera.start().  Without the CDN globals it throws before
\* anything is created; a camera.start() that rejects leaves the instance
\* created and referenced.  The catch sets the error; the button that calls
\* initializeCamera is offered while cameraStarted is false.
initializeCamera ==
    /\ mode = "deaf"
    /\ ~rendered.cameraStarted
    /\ liveEngines < MaxInits
    /\ \E outcome \in {"started", "start failed", "not loaded"} :
          /\ holisticRef' = (holisticRef \/ outcome # "not loaded")
          /\ liveEngines' = IF outcome = "not loaded" THEN liveEngines ELSE liveEngines + 1
          /\ cameraStarted' = (cameraStarted \/ outcome = "started")
          /\ error' = IF outcome = "started" THEN "none" ELSE "Failed to initialize MediaPipe"
    /\ UNCHANGED <<isRecording, isRecordingRef, framesRef, frameCountRef, isProcessing,
                   recognizedText, demoOverrideRef, rendered, liveSend, livePending,
                   liveCycle, liveSubmissions>>
    /\ UNCHANGED liveRest

\* React commits the pending state updates: the controls dock is redrawn.
LiveRender ==
    /\ mode = "deaf"
    /\ ~Committed
    /\ rendered' = [cameraStarted |-> cameraStarted, isRecording |-> isRecording,
                    isProcessing |-> isProcessing]
    /\ UNCHANGED <<cameraStarted, holisticRef, liveEngines, isRecording, isRecordingRef, framesRef,
                   frameCountRef, isProcessing, error, recognizedText, demoOverrideRef,
                   liveSend, livePending, liveCycle, liveSubmissions>>
    /\ UNCHANGED liveRest

\* Camera onFrame: if (holisticRef.current && videoRef.current) await send(...).
\* The camera utility awaits onFrame before it offers the next frame.
LiveCameraFrame ==
    /\ mode = "deaf"
    /\ Committed
    /\ cameraStarted
    /\ holisticRef
    /\ liveSend = {}
    /\ liveSend' = {liveCycle}
    /\ UNCHANGED <<cameraStarted, holisticRef, liveEngines, isRecording, isRecordingRef, framesRef,
                   frameCountRef, isProcessing, error, recognizedText, demoOverrideRef,
                   rendered, livePending, liveCycle, liveSubmissions>>
    /\ UNCHANGED liveRest

\* handleMediaPipeResults written without its test of isRecordingRef.current.
handleMediaPipeResultsAlways(origin) ==
    /\ framesRef' = Append(framesRef, [frame_id |-> frameCountRef, origin |-> origin])
    /\ frameCountRef' = frameCountRef + 1

\* handleMediaPipeResults written without `frameCountRef.current += 1`.
handleMediaPipeResultsNoCount(origin) ==
    IF isRecordingRef
    THEN /\ framesRef' = Append(framesRef, [frame_id |-> frameCountRef, origin |-> origin])
         /\ frameCountRef' = frameCountRef
    ELSE UNCHANGED <<framesRef, frameCountRef>>

\* handleMediaPipeResults written with `frameCountRef.current += 1` after
\* the test of isRecordingRef.current instead of inside it.
handleMediaPipeResultsCountsIdle(origin) ==
    /\ framesRef' = IF isRecordingRef
                    THEN Append(framesRef, [frame_id |-> frameCountRef, origin |-> origin])
                    ELSE framesRef
    /\ frameCountRef' = frameCountRef + 1

\* handleMediaPipeResults: the frame is collected only while isRecordingRef.current.
handleMediaPipeResults(origin) ==
    IF isRecordingRef
    THEN /\ framesRef' = Append(framesRef, [frame_id |-> frameCountRef, origin |-> origin])
         /\ frameCountRef' = frameCountRef + 1
    ELSE UNCHANGED <<framesRef, frameCountRef>>

\* The engine delivers the result of the outstanding send, and the send returns.
LiveResult ==
    /\ mode = "deaf"
    /\ Committed
    /\ \E origin \in liveSend :
          /\ isRecordingRef => Len(framesRef) < MaxFrames
          /\ handleMediaPipeResults(origin)
          /\ liveSend' = {}
    /\ UNCHANGED <<cameraStarted, holisticRef, liveEngines, isRecording, isRecordingRef,
                   isProcessing, error, recognizedText, demoOverrideRef, rendered,
                   livePending, liveCycle, liveSubmissions>>
    /\ UNCHANGED liveRest

\* startRecording, offered by the dock when not recording; disabled while processing.
startRecording ==
    /\ mode = "deaf"
    /\ rendered.cameraStarted
    /\ ~rendered.isRecording
    /\ ~rendered.isProcessing
    /\ liveCycle < MaxCycles
    /\ framesRef' = <<>>
    /\ frameCountRef' = 0
    /\ isRecording' = TRUE
    /\ isRecordingRef' = TRUE
    /\ recognizedText' = 0
    /\ error' = "none"
    /\ liveCycle' = liveCycle + 1
    /\ UNCHANGED <<cameraStarted, holisticRef, liveEngines, isProcessing, demoOverrideRef, rendered,
                   liveSend, livePending, liveSubmissions>>
    /\ UNCHANGED liveRest

\* keydown handler: a digit key queues the demo override.
handleKeyPress ==
    /\ mode = "deaf"
    /\ Committed
    /\ ~demoOverrideRef
    /\ demoOverrideRef' = TRUE
    /\ UNCHANGED <<cameraStarted, holisticRef, liveEngines, isRecording, isRecordingRef, framesRef,
                   frameCountRef, isProcessing, error, recognizedText, rendered,
                   liveSend, livePending, liveCycle, liveSubmissions>>
    /\ UNCHANGED liveRest

\* stopRecording written without its test of collectedFrames.length === 0.
stopRecordingNoEmptyTest ==
    /\ mode = "deaf"
    /\ rendered.cameraStarted
    /\ rendered.isRecording
    /\ BagCardinality(livePending) < MaxPending
    /\ isRecording' = FALSE
    /\ isRecordingRef' = FALSE
    /\ IF demoOverrideRef
       THEN /\ isProcessing' = TRUE
            /\ error' = "none"
            /\ livePending' = livePending (+) SetToBag({[kind |-> "demoDelay", cycle |-> liveCycle]})
            /\ UNCHANGED liveSubmissions
       ELSE /\ isProcessing' = TRUE
            /\ liveSubmissions' = Append(liveSubmissions, [cycle |-> liveCycle, frames |-> framesRef])
            /\ livePending' = livePending (+) SetToBag({[kind |-> "recognize", cycle |-> liveCycle]})
            /\ UNCHANGED error
    /\ UNCHANGED <<cameraStarted, holisticRef, liveEngines, framesRef, frameCountRef,
                   recognizedText,
                   demoOverrideRef, rendered, liveSend, liveCycle>>
    /\ UNCHANGED liveRest

\* stopRecording up to its first await, offered by the dock while recording.
\*   override queued : processDemoSign (no recognition request)
\*   no frames       : error, not processing
\*   otherwise       : apiService.processDeafUserMessage(collectedFrames)
stopRecording ==
    /\ mode = "deaf"
    /\ rendered.cameraStarted
    /\ rendered.isRecording
    /\ BagCardinality(livePending) < MaxPending
    /\ isRecording' = FALSE
    /\ isRecordingRef' = FALSE
    /\ IF demoOverrideRef
       THEN /\ isProcessing' = TRUE
            /\ error' = "none"
            /\ livePending' = livePending (+) SetToBag({[kind |-> "demoDelay", cycle |-> liveCycle]})
            /\ UNCHANGED liveSubmissions
       ELSE IF Len(framesRef) = 0
       THEN /\ error' = "No frames recorded"
            /\ isProcessing' = FALSE
            /\ UNCHANGED <<livePending, liveSubmissions>>
       ELSE /\ isProcessing' = TRUE
            /\ liveSubmissions' = Append(liveSubmissions, [cycle |-> liveCycle, frames |-> framesRef])
            /\ livePending' = livePending (+) SetToBag({[kind |-> "recognize", cycle |-> liveCycle]})
            /\ UNCHANGED error
    /\ UNCHANGED <<cameraStarted, holisticRef, liveEngines, framesRef, frameCountRef,
                   recognizedText,
                   demoOverrideRef, rendered, liveSend, liveCycle>>
    /\ UNCHANGED liveRest

\* stopRecording after its await, written without the `finally` block: a
\* request that throws leaves isProcessing as it is.
RecognizeReturnNoFinally ==
    /\ mode = "deaf"
    /\ Committed
    /\ \E p \in BagToSet(livePending), outcome \in {"success", "predictions", "none", "throw"} :
          /\ p.kind = "recognize"
          /\ CASE outcome = "success" ->
                    /\ recognizedText' = p.cycle
                    /\ isProcessing' = FALSE
                    /\ livePending' = livePending (-) SetToBag({p})
                    /\ UNCHANGED error
               [] outcome = "predictions" ->
                    /\ recognizedText' = p.cycle
                    /\ livePending' = (livePending (-) SetToBag({p}))
                                          (+) SetToBag({[kind |-> "translate", cycle |-> p.cycle]})
                    /\ UNCHANGED <<isProcessing, error>>
               [] outcome = "none" ->
                    /\ error' = "Could not recognize sign"
                    /\ isProcessing' = FALSE
                    /\ livePending' = livePending (-) SetToBag({p})
                    /\ UNCHANGED recognizedText
               [] outcome = "throw" ->
                    /\ error' = "Processing failed"
                    /\ UNCHANGED isProcessing
                    /\ livePending' = livePending (-) SetToBag({p})
                    /\ UNCHANGED recognizedText
    /\ UNCHANGED <<cameraStarted, holisticRef, liveEngines, isRecording, isRecordingRef, framesRef,
                   frameCountRef, demoOverrideRef, rendered, liveSend, liveCycle,
                   liveSubmissions>>
    /\ UNCHANGED liveRest

\* The recognition request returns; stopRecording continues after its await.
\*   success     : recognized and translated text are set
\*   predictions : the top prediction is shown and a translation is fetched
\*   none        : error 'Could not recognize sign'
\*   throw       : error 'Processing failed'
RecognizeReturn ==
    /\ mode = "deaf"
    /\ Committed
    /\ \E p \in BagToSet(livePending), outcome \in {"success", "predictions", "none", "throw"} :
          /\ p.kind = "recognize"
          /\ CASE outcome = "success" ->
                    /\ recognizedText' = p.cycle
                    /\ isProcessing' = FALSE
                    /\ livePending' = livePending (-) SetToBag({p})
                    /\ UNCHANGED error
               [] outcome = "predictions" ->
                    /\ recognizedText' = p.cycle
                    /\ livePending' = (livePending (-) SetToBag({p}))
                                          (+) SetToBag({[kind |-> "translate", cycle |-> p.cycle]})
                    /\ UNCHANGED <<isProcessing, error>>
               [] outcome = "none" ->
                    /\ error' = "Could not recognize sign"
                    /\ isProcessing' = FALSE
                    /\ livePending' = livePending (-) SetToBag({p})
                    /\ UNCHANGED recognizedText
               [] outcome = "throw" ->
                    /\ error' = "Processing failed"
                    /\ isProcessing' = FALSE
                    /\ livePending' = livePending (-) SetToBag({p})
                    /\ UNCHANGED recognizedText
    /\ UNCHANGED <<cameraStarted, holisticRef, liveEngines, isRecording, isRecordingRef, framesRef,
                   frameCountRef, demoOverrideRef, rendered, liveSend, liveCycle,
                   liveSubmissions>>
    /\ UNCHANGED liveRest

\* The translation fetch of stopRecording returns or fails; finally setIsProcessing(false).
TranslateReturn ==
    /\ mode = "deaf"
    /\ Committed
    /\ \E p \in BagToSet(livePending) :
          /\ p.kind = "translate"
          /\ livePending' = livePending (-) SetToBag({p})
    /\ isProcessing' = FALSE
    /\ UNCHANGED <<cameraStarted, holisticRef, liveEngines, isRecording, isRecordingRef, framesRef,
                   frameCountRef, error, recognizedText, demoOverrideRef, rendered,
                   liveSend, liveCycle, liveSubmissions>>
    /\ UNCHANGED liveRest

\* processDemoSign: the simulated delay is over; the label is shown and the
\* translation is fetched.
DemoDelayDone ==
    /\ mode = "deaf"
    /\ Committed
    /\ \E p \in BagToSet(livePending) :
          /\ p.kind = "demoDelay"
          /\ recognizedText' = p.cycle
          /\ livePending' = (livePending (-) SetToBag({p}))
                                (+) SetToBag({[kind |-> "demoTranslate", cycle |-> p.cycle]})
    /\ UNCHANGED <<cameraStarted, holisticRef, liveEngines, isRecording, isRecordingRef, framesRef,
                   frameCountRef, isProcessing, error, demoOverrideRef, rendered,
                   liveSend, liveCycle, liveSubmissions>>
    /\ UNCHANGED liveRest

\* processDemoSign: the translation returns or fails; finally the override is cleared.
DemoTranslateDone ==
    /\ mode = "deaf"
    /\ Committed
    /\ \E p \in BagToSet(livePending) :
          /\ p.kind = "demoTranslate"
          /\ livePending' = livePending (-) SetToBag({p})
    /\ isProcessing' = FALSE
    /\ demoOverrideRef' = FALSE
    /\ UNCHANGED <<cameraStarted, holisticRef, liveEngines, isRecording, isRecordingRef, framesRef,
                   frameCountRef, error, recognizedText, rendered, liveSend, liveCycle,
                   liveSubmissions>>
    /\ UNCHANGED liveRest

LiveNext ==
    \/ initializeCamera
    \/ LiveRender
    \/ LiveCameraFrame
    \/ LiveResult
    \/ startRecording
    \/ handleKeyPress
    \/ stopRecording
    \/ RecognizeReturn
    \/ TranslateReturn
    \/ DemoDelayDone
    \/ DemoTranslateDone

(***************************************************************************)
(* DatasetProcessor: the batch loop.                                       *)
(*                                                                         *)
(* startProcessing is one async function; dpPC is its position:            *)
(*   idle     not running                                                  *)
(*   next     at the top of the loop body for videos[dpI]                  *)
(*   job      awaiting processVideoSimple(video)                           *)
(*   resolved the job's promise is resolved, the await has not continued   *)
(*   delay    awaiting the 100 ms pause                                    *)
(* processVideoSimple never rejects (every path calls resolve), so the     *)
(* catch block of startProcessing is entered by no job outcome.            *)
(***************************************************************************)
NoJob == -1

NoSave == [video |-> NoJob, frames |-> <<>>, outcome |-> "none"]

\* useEffect on mount: createHolisticInstance() with holisticRef.current unset.
DPInit ==
    /\ processedCount = 0
    /\ dpIsProcessing = FALSE
    /\ dpEngine = [id |-> 1, sent |-> FALSE]
    /\ dpCallback = NoJob
    /\ dpClosureCount = 0
    /\ dpPC = "idle"
    /\ dpI = 0
    /\ dpVideoEl = "none"
    /\ dpFrames = <<>>
    /\ dpFrameId = 0
    /\ isProcessingFrame = FALSE
    /\ dpLoop = "none"
    /\ dpSends = {}
    /\ dpSaving = FALSE
    /\ dpLastSave = NoSave
    /\ dpRuns = 0
    /\ dpRunRecycles = 0
    /\ dpRunCrashes = 0
    /\ dpJobCrashed = FALSE
    /\ dpPrevCrashed = FALSE
    /\ dpUsedBefore = FALSE

\* `processedCount > 0 && processedCount % 20 === 0`, on the captured count.
ShouldReinit(count) == count > 0 /\ count % RecyclePeriod = 0

\* createHolisticInstance: close the current instance, create and store a new
\* one; the new instance has no result handler yet.
createHolisticInstance(engine) == [id |-> engine.id + 1, sent |-> FALSE]

\* onended written without its test of frames.length.
HasFramesUnchecked(frames) == TRUE

\* `if (frames.length > 0) saveData(...)` in onended.
HasFrames(frames) == Len(frames) > 0

\* startProcessing up to the loop: the button is disabled while processing.
startProcessing ==
    /\ mode = "processing"
    /\ dpPC = "idle"
    /\ ~dpIsProcessing
    /\ dpRuns < MaxRuns
    /\ dpIsProcessing' = TRUE
    /\ dpClosureCount' = processedCount
    /\ processedCount' = 0
    /\ dpI' = 0
    /\ dpPC' = "next"
    /\ dpRunRecycles' = 0
    /\ dpRunCrashes' = 0
    /\ dpJobCrashed' = FALSE
    /\ dpPrevCrashed' = FALSE
    /\ UNCHANGED <<dpEngine, dpCallback, dpVideoEl, dpFrames, dpFrameId, isProcessingFrame,
                   dpLoop, dpSends, dpSaving, dpLastSave, dpRuns, dpUsedBefore>>
    /\ UNCHANGED dpRest

\* Loop body up to the await of processVideoSimple: the periodic re-init,
\* then processVideoSimple creates the video element and the job's locals,
\* registers onResults on the current instance and calls play().
DPNextVideo ==
    /\ mode = "processing"
    /\ dpPC = "next"
    /\ \A s \in dpSends : s.job + MaxStaleJobs >= dpI
    /\ LET engine == IF ShouldReinit(dpClosureCount)
                     THEN createHolisticInstance(dpEngine) ELSE dpEngine
       IN  /\ dpEngine' = engine
           /\ dpUsedBefore' = engine.sent
           /\ dpRunRecycles' = IF ShouldReinit(dpClosureCount)
                               THEN dpRunRecycles + 1 ELSE dpRunRecycles
    /\ dpCallback' = dpI
    /\ dpVideoEl' = "loading"
    /\ dpFrames' = <<>>
    /\ dpFrameId' = 0
    /\ isProcessingFrame' = FALSE
    /\ dpLoop' = "none"
    /\ dpLastSave' = NoSave
    /\ dpPrevCrashed' = dpJobCrashed
    /\ dpJobCrashed' = FALSE
    /\ dpSaving' = FALSE
    /\ dpPC' = "job"
    /\ UNCHANGED <<processedCount, dpIsProcessing, dpClosureCount, dpI, dpSends, dpRuns,
                   dpRunCrashes>>
    /\ UNCHANGED dpRest

\* videoEl.onerror: resolve() (skip).
DPVideoError ==
    /\ mode = "processing"
    /\ dpPC = "job"
    /\ dpVideoEl = "loading"
    /\ dpVideoEl' = "error"
    /\ dpPC' = "resolved"
    /\ UNCHANGED <<processedCount, dpIsProcessing, dpEngine, dpCallback, dpClosureCount,
                   dpI, dpFrames, dpFrameId, isProcessingFrame, dpLoop, dpSends, dpSaving,
                   dpLastSave, dpRuns, dpRunRecycles, dpRunCrashes, dpJobCrashed,
                   dpPrevCrashed, dpUsedBefore>>
    /\ UNCHANGED dpRest

\* videoEl.play().catch: resolve().
DPPlayRejected ==
    /\ mode = "processing"
    /\ dpPC = "job"
    /\ dpVideoEl = "loading"
    /\ dpVideoEl' = "paused"
    /\ dpPC' = "resolved"
    /\ UNCHANGED <<processedCount, dpIsProcessing, dpEngine, dpCallback, dpClosureCount,
                   dpI, dpFrames, dpFrameId, isProcessingFrame, dpLoop, dpSends, dpSaving,
                   dpLastSave, dpRuns, dpRunRecycles, dpRunCrashes, dpJobCrashed,
                   dpPrevCrashed, dpUsedBefore>>
    /\ UNCHANGED dpRest

\* processNextFrame with the video playing: send unless a send of this job is
\* marked outstanding, else ask for the next frame callback.
processNextFrame ==
    IF ~isProcessingFrame
    THEN /\ Cardinality(dpSends) < MaxInFlight
         /\ isProcessingFrame' = TRUE
         /\ dpSends' = dpSends \cup {[job |-> dpI, engine |-> dpEngine.id]}
         /\ dpEngine' = [dpEngine EXCEPT !.sent = TRUE]
         /\ dpLoop' = "awaitSend"
    ELSE /\ dpLoop' = "scheduled"
         /\ UNCHANGED <<isProcessingFrame, dpSends, dpEngine>>

\* play() succeeds; onplay calls processNextFrame.
DPPlay ==
    /\ mode = "processing"
    /\ dpPC = "job"
    /\ dpVideoEl = "loading"
    /\ dpVideoEl' = "playing"
    /\ processNextFrame
    /\ UNCHANGED <<processedCount, dpIsProcessing, dpCallback, dpClosureCount, dpPC, dpI,
                   dpFrames, dpFrameId, dpSaving, dpLastSave, dpRuns, dpRunRecycles,
                   dpRunCrashes, dpJobCrashed, dpPrevCrashed, dpUsedBefore>>
    /\ UNCHANGED dpRest

\* requestVideoFrameCallback fires for the playing video.
DPFrameCallback ==
    /\ mode = "processing"
    /\ dpPC = "job"
    /\ dpLoop = "scheduled"
    /\ dpVideoEl = "playing"
    /\ processNextFrame
    /\ UNCHANGED <<processedCount, dpIsProcessing, dpCallback, dpClosureCount, dpPC, dpI,
                   dpVideoEl, dpFrames, dpFrameId, dpSaving, dpLastSave, dpRuns,
                   dpRunRecycles, dpRunCrashes, dpJobCrashed, dpPrevCrashed, dpUsedBefore>>
    /\ UNCHANGED dpRest

\* The engine delivers the result of send s to the handler registered on the
\* send's instance, then the send returns to the loop that awaits it.
\* The handler is the closure of job dpCallback: it appends to that job's
\* frames and clears that job's isProcessingFrame.  A handler of an instance
\* that was replaced, or of a job that is resolved, writes locals nobody reads.
DPSendReturn ==
    /\ mode = "processing"
    /\ \E s \in dpSends :
          /\ dpSends' = dpSends \ {s}
          /\ IF s.engine = dpEngine.id /\ dpCallback = dpI /\ dpPC = "job"
             THEN /\ Len(dpFrames) < MaxFrames
                  /\ dpFrames' = Append(dpFrames, [frame_id |-> dpFrameId, origin |-> s.job])
                  /\ dpFrameId' = dpFrameId + 1
                  /\ isProcessingFrame' = FALSE
             ELSE UNCHANGED <<dpFrames, dpFrameId, isProcessingFrame>>
          /\ IF s.job = dpI /\ dpPC = "job" /\ dpLoop = "awaitSend"
             THEN dpLoop' = "scheduled"
             ELSE UNCHANGED dpLoop
    /\ UNCHANGED <<processedCount, dpIsProcessing, dpEngine, dpCallback, dpClosureCount,
                   dpPC, dpI, dpVideoEl, dpSaving, dpLastSave, dpRuns, dpRunRecycles,
                   dpRunCrashes, dpJobCrashed, dpPrevCrashed, dpUsedBefore>>
    /\ UNCHANGED dpRest

\* send s throws: the catch of processNextFrame clears the flag, pauses the
\* video and resolves the job ("parent loop will re-init").
DPSendThrow ==
    /\ mode = "processing"
    /\ \E s \in dpSends :
          /\ dpSends' = dpSends \ {s}
          /\ IF s.job = dpI /\ dpPC = "job" /\ dpLoop = "awaitSend"
             THEN /\ dpRunCrashes < MaxCrashes
                  /\ isProcessingFrame' = FALSE
                  /\ dpVideoEl' = IF dpVideoEl \in {"playing", "stalled"}
                                   THEN "paused" ELSE dpVideoEl
                  /\ dpLoop' = "stopped"
                  /\ dpPC' = "resolved"
                  /\ dpJobCrashed' = TRUE
                  /\ dpRunCrashes' = dpRunCrashes + 1
             ELSE UNCHANGED <<isProcessingFrame, dpVideoEl, dpLoop, dpPC, dpJobCrashed,
                              dpRunCrashes>>
    /\ UNCHANGED <<processedCount, dpIsProcessing, dpEngine, dpCallback, dpClosureCount,
                   dpI, dpFrames, dpFrameId, dpSaving, dpLastSave, dpRuns, dpRunRecycles,
                   dpPrevCrashed, dpUsedBefore>>
    /\ UNCHANGED dpRest

\* The playing source stops delivering frames without ending (it stalls):
\* no handler of processVideoSimple is called, and requestVideoFrameCallback
\* has no frame to call back for.
DPVideoStalled ==
    /\ mode = "processing"
    /\ dpPC = "job"
    /\ dpVideoEl = "playing"
    /\ dpVideoEl' = "stalled"
    /\ UNCHANGED <<processedCount, dpIsProcessing, dpEngine, dpCallback, dpClosureCount,
                   dpPC, dpI, dpFrames, dpFrameId, isProcessingFrame, dpLoop, dpSends,
                   dpSaving, dpLastSave, dpRuns, dpRunRecycles, dpRunCrashes, dpJobCrashed,
                   dpPrevCrashed, dpUsedBefore>>
    /\ UNCHANGED dpRest

\* videoEl.onended: save when frames were collected, else warn; then resolve.
DPVideoEnded ==
    /\ mode = "processing"
    /\ dpPC = "job"
    /\ dpVideoEl = "playing"
    /\ dpVideoEl' = "ended"
    /\ IF HasFrames(dpFrames)
       THEN /\ dpLastSave' = [video |-> dpI, frames |-> dpFrames, outcome |-> "pending"]
            /\ dpSaving' = TRUE
            /\ UNCHANGED dpPC
       ELSE /\ dpPC' = "resolved"
            /\ UNCHANGED <<dpLastSave, dpSaving>>
    /\ UNCHANGED <<processedCount, dpIsProcessing, dpEngine, dpCallback, dpClosureCount,
                   dpI, dpFrames, dpFrameId, isProcessingFrame, dpLoop, dpSends, dpRuns,
                   dpRunRecycles, dpRunCrashes, dpJobCrashed, dpPrevCrashed, dpUsedBefore>>
    /\ UNCHANGED dpRest

\* saveData written without its try/catch: a failed fetch rejects the call.
saveDataUncaught(ok) == ok

\* saveData: does the call return to its caller when the fetch succeeded (ok)
\* or failed?  The catch logs a failure, so it returns either way.
saveData(ok) == TRUE

\* The fetch of saveData settles.  When saveData returns, onended resolves the
\* job (a no-op when the catch of processNextFrame has resolved it already);
\* a saveData that threw would end onended before its resolve().
DPSaveDone ==
    /\ mode = "processing"
    /\ dpSaving
    /\ dpSaving' = FALSE
    /\ \E ok \in BOOLEAN :
          /\ dpLastSave' = [dpLastSave EXCEPT !.outcome = IF ok THEN "saved" ELSE "failed"]
          /\ IF dpPC = "job" /\ saveData(ok) THEN dpPC' = "resolved" ELSE UNCHANGED dpPC
    /\ UNCHANGED <<processedCount, dpIsProcessing, dpEngine, dpCallback, dpClosureCount,
                   dpI, dpVideoEl, dpFrames, dpFrameId, isProcessingFrame, dpLoop, dpSends,
                   dpRuns, dpRunRecycles, dpRunCrashes, dpJobCrashed,
                   dpPrevCrashed, dpUsedBefore>>
    /\ UNCHANGED dpRest

\* startProcessing continues after processVideoSimple: count the video, pause 100 ms.
DPJobResolved ==
    /\ mode = "processing"
    /\ dpPC = "resolved"
    /\ processedCount' = processedCount + 1
    /\ dpPC' = "delay"
    /\ UNCHANGED <<dpIsProcessing, dpEngine, dpCallback, dpClosureCount, dpI, dpVideoEl,
                   dpFrames, dpFrameId, isProcessingFrame, dpLoop, dpSends, dpSaving,
                   dpLastSave, dpRuns, dpRunRecycles, dpRunCrashes, dpJobCrashed,
                   dpPrevCrashed, dpUsedBefore>>
    /\ UNCHANGED dpRest

\* The pause is over: the next video, or the end of the run.
DPDelayDone ==
    /\ mode = "processing"
    /\ dpPC = "delay"
    /\ IF dpI + 1 < NumVideos
       THEN /\ dpI' = dpI + 1
            /\ dpPC' = "next"
            /\ UNCHANGED <<dpIsProcessing, dpRuns>>
       ELSE /\ dpIsProcessing' = FALSE
            /\ dpPC' = "idle"
            /\ dpRuns' = dpRuns + 1
            /\ UNCHANGED dpI
    /\ UNCHANGED <<processedCount, dpEngine, dpCallback, dpClosureCount, dpVideoEl,
                   dpFrames, dpFrameId, isProcessingFrame, dpLoop, dpSends, dpSaving,
                   dpLastSave, dpRunRecycles, dpRunCrashes, dpJobCrashed, dpPrevCrashed,
                   dpUsedBefore>>
    /\ UNCHANGED dpRest

DatasetNext ==
    \/ startProcessing
    \/ DPNextVideo
    \/ DPVideoError
    \/ DPPlayRejected
    \/ DPPlay
    \/ DPFrameCallback
    \/ DPSendReturn
    \/ DPSendThrow
    \/ DPVideoStalled
    \/ DPVideoEnded
    \/ DPSaveDone
    \/ DPJobResolved
    \/ DPDelayDone

(***************************************************************************)
(* VideoProcessor: the manifest queue.                                     *)
(*                                                                         *)
(* processNextVideo, playVideo and processFrame are closures of one        *)
(* render: the `currentIndex` they read is the index of the render that    *)
(* ran the effect, which is also the index of their videoItem.  A pending  *)
(* timer or await is an activity [kind, job, n]; job is that captured      *)
(* index.                                                                  *)
(*   starting  playVideo(n): the 500 ms pause, then the await of play()    *)
(*   watchdog  the 12 s safety timeout set by playVideo(n)                 *)
(*   advance   a pending setCurrentIndex(prev => prev + 1): the 1 s timer  *)
(*             of playVideo's catch (n = 0), or the await of saveResults'  *)
(*             fetch whose continuation advances the index (n = 1)         *)
(*   send      processFrame awaits holistic.send, n the session in which   *)
(*             the send was issued                                         *)
(*   raf       processFrame is scheduled by requestAnimationFrame          *)
(*   loopplay  processFrame awaits play() on its zero-frame retry path,    *)
(*             n the retries this loop has made in a row                   *)
(* A state update is followed by its render and the effect on              *)
(* [currentIndex, processingStatus] within the same step.                  *)
(* The initial state is the mounted component: engine and manifest loaded. *)
(***************************************************************************)
Status(tag, n) == [tag |-> tag, n |-> n]

Activity(kind, job, n) == [kind |-> kind, job |-> job, n |-> n]

One(a) == SetToBag({a})

Copies(a, k) == IF k = 0 THEN EmptyBag ELSE [x \in {a} |-> k]

NoVideoSave == [label |-> NoJob, frames |-> <<>>]

VPInit ==
    /\ currentIndex = 0
    /\ processingStatus = Status("Ready to start", 0)
    /\ currentFramesRef = <<>>
    /\ frameIdRef = 0
    /\ vpVideo = "paused"
    /\ vpActivities = EmptyBag
    /\ vpCommands = [start |-> 0, move |-> 0]
    /\ vpSession = NoJob
    /\ vpGaveUp = {}
    /\ vpSkipped = NoJob
    /\ vpCrashed = {}
    /\ vpLastSave = NoVideoSave

\* `currentIndex === manifest.indexOf(videoItem)` inside a closure whose
\* videoItem is manifest[currentIndex]: both sides come from the same render.
IndexIsCurrent(closureIndex, job) == closureIndex = job

\* saveResults: nothing is sent for an empty buffer, else the buffer is posted
\* with the item's label.  The value is the save request made.
saveResults(job, frames) ==
    IF Len(frames) = 0 THEN NoVideoSave ELSE [label |-> job, frames |-> frames]

\* playVideo(n) up to its first await: more than three retries throws, and the
\* catch schedules the advance of the index.
playVideo(job, n) ==
    IF n > MaxRetries THEN Activity("advance", job, 0) ELSE Activity("starting", job, n)

\* The jobs given up without a frame: playVideo(n) of the job in session
\* throws 'Max retries exceeded' while the buffer is empty.  A job leaves the
\* set when its session collects a frame after all, or when it is started anew.
GiveUp(job, n) ==
    IF n > MaxRetries /\ job = vpSession /\ Len(currentFramesRef) = 0
    THEN vpGaveUp \cup {job} ELSE vpGaveUp

\* The effect body: does it call processNextVideo for this render?
EffectStarts(index, status) ==
    \/ index > 0 /\ index < NumManifest
    \/ index = 0 /\ NumManifest > 0 /\ status.tag = "Started"

\* Number of processNextVideo calls that follow a state update to
\* (index, status): the effect runs when a dependency changed, and
\* processNextVideo's own setProcessingStatus can make it run once more.
EffectCalls(index, status) ==
    IF <<index, status>> = <<currentIndex, processingStatus>> THEN 0
    ELSE IF ~EffectStarts(index, status) THEN 0
    ELSE IF status = Status("Processing", index + 1) THEN 1
    ELSE IF EffectStarts(index, Status("Processing", index + 1)) THEN 2
    ELSE 1

\* A state update to (index, status) with `activities` pending, its render and
\* effect.  processNextVideo: 'Processing Complete!' when the index is at the
\* end of the manifest, else status, reset of buffer and frame id, playVideo(0).
\* `skipped` is the job abandoned by Skip Next so far; it is no longer
\* abandoned once processNextVideo starts it anew.
Update(index, status, activities, skipped) ==
    LET calls == EffectCalls(index, status)
    IN  /\ currentIndex' = index
        /\ BagCardinality(activities) + calls <= MaxActivities
        /\ IF calls = 0
           THEN /\ processingStatus' = status
                /\ vpActivities' = activities
                /\ vpSkipped' = skipped
                /\ UNCHANGED <<currentFramesRef, frameIdRef, vpSession, vpGaveUp, vpCrashed>>
           ELSE IF index >= NumManifest
           THEN /\ processingStatus' = Status("Processing Complete!", 0)
                /\ vpActivities' = activities
                /\ vpSkipped' = skipped
                /\ UNCHANGED <<currentFramesRef, frameIdRef, vpSession, vpGaveUp, vpCrashed>>
           ELSE /\ processingStatus' = Status("Processing", index + 1)
                /\ currentFramesRef' = <<>>
                /\ frameIdRef' = 0
                /\ vpActivities' = activities (+) Copies(playVideo(index, 0), calls)
                /\ vpSession' = index
                /\ vpGaveUp' = vpGaveUp \ {index}
                /\ vpCrashed' = vpCrashed \ {index}
                /\ vpSkipped' = IF skipped = index THEN NoJob ELSE skipped

\* processFrame of a loop of `job`, run with the video in state `video`;
\* `n` counts the zero-frame retries the loop has made in a row and `rest`
\* are the other pending activities.  A send records the session it was
\* issued in.
processFrame(job, n, video, rest) ==
    IF video \in {"ended", "paused"}
    THEN IF Len(currentFramesRef) > 0
         THEN /\ vpLastSave' = saveResults(job, currentFramesRef)
              /\ vpActivities' = rest (+) One(Activity("advance", job, 1))
              /\ vpVideo' = video
              /\ UNCHANGED currentFramesRef
         ELSE /\ n < MaxReplays
              /\ currentFramesRef' = <<>>
              /\ vpVideo' = "paused"
              /\ vpActivities' = rest (+) One(Activity("loopplay", job, n + 1))
              /\ vpLastSave' = NoVideoSave
    ELSE /\ vpActivities' = rest (+) One(Activity("send", job, vpSession))
         /\ vpVideo' = video
         /\ vpLastSave' = NoVideoSave
         /\ UNCHANGED currentFramesRef

\* startProcessing of VideoProcessor; the button is disabled while 'Started'.
VPStartProcessing ==
    /\ mode = "training"
    /\ processingStatus.tag # "Started"
    /\ vpCommands.start < MaxStarts
    /\ vpCommands' = [vpCommands EXCEPT !.start = @ + 1]
    /\ Update(0, Status("Started", 0), vpActivities, vpSkipped)
    /\ vpLastSave' = NoVideoSave
    /\ UNCHANGED <<vpVideo>>
    /\ UNCHANGED vpRest

Min(a, b) == IF a < b THEN a ELSE b

Max(a, b) == IF a > b THEN a ELSE b

\* Job `job` is processing: the buffer is in its session and a playVideo
\* chain, timer or frame loop of it is pending.
IsProcessing(job) ==
    /\ vpSession = job
    /\ \E a \in BagToSet(vpActivities) : a.job = job

\* Skip Next: setCurrentIndex(prev => Math.min(prev + 1, manifest.length - 1)).
VPSkipNext ==
    /\ mode = "training"
    /\ vpCommands.move < MaxCommands
    /\ Min(currentIndex + 1, NumManifest - 1) # currentIndex
    /\ vpCommands' = [vpCommands EXCEPT !.move = @ + 1]
    /\ Update(Min(currentIndex + 1, NumManifest - 1), processingStatus, vpActivities,
              IF IsProcessing(currentIndex) THEN currentIndex ELSE vpSkipped)
    /\ vpLastSave' = NoVideoSave
    /\ UNCHANGED <<vpVideo>>
    /\ UNCHANGED vpRest

\* Prev: setCurrentIndex(prev => Math.max(prev - 1, 0)).
VPPrev ==
    /\ mode = "training"
    /\ vpCommands.move < MaxCommands
    /\ Max(currentIndex - 1, 0) # currentIndex
    /\ vpCommands' = [vpCommands EXCEPT !.move = @ + 1]
    /\ Update(Max(currentIndex - 1, 0), processingStatus, vpActivities, vpSkipped)
    /\ vpLastSave' = NoVideoSave
    /\ UNCHANGED <<vpVideo>>
    /\ UNCHANGED vpRest

\* playVideo: play() resolves; processVideoFrames runs processFrame once and
\* the safety timeout is set.  A source without a frame to show is at its end
\* as soon as it plays.
VPPlayResolved ==
    /\ mode = "training"
    /\ \E a \in BagToSet(vpActivities), video \in {"playing", "ended"} :
          /\ a.kind = "starting"
          /\ BagCardinality(vpActivities) < MaxActivities
          /\ processFrame(a.job, 0, video,
                          (vpActivities (-) One(a)) (+) One(Activity("watchdog", a.job, a.n)))
    /\ UNCHANGED <<currentIndex, processingStatus, frameIdRef, vpCommands, vpSkipped,
                   vpSession, vpCrashed, vpGaveUp>>
    /\ UNCHANGED vpRest

\* playVideo: play() rejects.  'interrupted' retries after 300 ms, any other
\* error advances the index after 1 s.
VPPlayRejected ==
    /\ mode = "training"
    /\ \E a \in BagToSet(vpActivities), interrupted \in BOOLEAN :
          /\ a.kind = "starting"
          /\ vpActivities' = (vpActivities (-) One(a))
                                (+) One(IF interrupted THEN playVideo(a.job, a.n + 1)
                                        ELSE Activity("advance", a.job, 0))
          /\ vpGaveUp' = IF interrupted THEN GiveUp(a.job, a.n + 1) ELSE vpGaveUp
    /\ vpLastSave' = NoVideoSave
    /\ UNCHANGED <<currentIndex, processingStatus, currentFramesRef, frameIdRef, vpVideo,
                   vpCommands, vpSkipped, vpSession, vpCrashed>>
    /\ UNCHANGED vpRest

\* The safety timeout of playVideo(n) fires.
VPSafetyTimeout ==
    /\ mode = "training"
    /\ \E a \in BagToSet(vpActivities) :
          /\ a.kind = "watchdog"
          /\ IF IndexIsCurrent(a.job, a.job)
             THEN IF Len(currentFramesRef) = 0
                  THEN /\ vpActivities' = (vpActivities (-) One(a))
                                             (+) One(playVideo(a.job, a.n + 1))
                       /\ vpGaveUp' = GiveUp(a.job, a.n + 1)
                       /\ vpLastSave' = NoVideoSave
                  ELSE /\ vpLastSave' = saveResults(a.job, currentFramesRef)
                       /\ vpActivities' = (vpActivities (-) One(a))
                                             (+) One(Activity("advance", a.job, 1))
                       /\ UNCHANGED vpGaveUp
             ELSE /\ vpActivities' = vpActivities (-) One(a)
                  /\ vpLastSave' = NoVideoSave
                  /\ UNCHANGED vpGaveUp
    /\ UNCHANGED <<currentIndex, processingStatus, currentFramesRef, frameIdRef, vpVideo,
                   vpCommands, vpSkipped, vpSession, vpCrashed>>
    /\ UNCHANGED vpRest

\* saveResults after its fetch settled: does the call return to its caller
\* when the fetch succeeded (ok) or failed?  The catch logs a failure.
saveResultsReturns(ok) == TRUE

\* A pending advance runs: the 1 s timer fires, or the fetch of saveResults
\* succeeds or fails; when saveResults returns, the caller's closure test
\* passes and the index is advanced.
VPAdvance ==
    /\ mode = "training"
    /\ \E a \in BagToSet(vpActivities), ok \in BOOLEAN :
          /\ a.kind = "advance"
          /\ a.n = 0 => ok
          /\ currentIndex < NumManifest + MaxOvershoot
          /\ IF (a.n = 1 => saveResultsReturns(ok)) /\ IndexIsCurrent(a.job, a.job)
             THEN Update(currentIndex + 1, processingStatus, vpActivities (-) One(a),
                         vpSkipped)
             ELSE Update(currentIndex, processingStatus, vpActivities (-) One(a), vpSkipped)
    /\ vpLastSave' = NoVideoSave
    /\ UNCHANGED <<vpVideo, vpCommands>>
    /\ UNCHANGED vpRest

\* handleResults written with `frame_id: frameIdRef.current`, no increment.
handleResultsSameId ==
    /\ currentFramesRef' = Append(currentFramesRef, [frame_id |-> frameIdRef])
    /\ frameIdRef' = frameIdRef

\* handleResults written with `currentFramesRef.current = [frame]`, no push.
handleResultsReplace ==
    /\ currentFramesRef' = <<[frame_id |-> frameIdRef]>>
    /\ frameIdRef' = frameIdRef + 1

\* handleResults: push {frame_id: frameIdRef.current++, keypoints}.
handleResults ==
    /\ currentFramesRef' = Append(currentFramesRef, [frame_id |-> frameIdRef])
    /\ frameIdRef' = frameIdRef + 1

\* The engine delivers the result of a send and the send returns; the loop
\* asks for the next animation frame.
VPSendReturn ==
    /\ mode = "training"
    /\ \E a \in BagToSet(vpActivities) :
          /\ a.kind = "send"
          /\ Len(currentFramesRef) < MaxFrames
          /\ handleResults
          /\ vpActivities' = (vpActivities (-) One(a)) (+) One(Activity("raf", a.job, 0))
    /\ vpGaveUp' = vpGaveUp \ {vpSession}
    /\ vpLastSave' = NoVideoSave
    /\ UNCHANGED <<currentIndex, processingStatus, vpVideo, vpCommands,
                   vpSkipped, vpSession, vpCrashed>>
    /\ UNCHANGED vpRest

\* A send throws inside processFrame: nothing catches it, the loop ends.
VPSendThrow ==
    /\ mode = "training"
    /\ \E a \in BagToSet(vpActivities) :
          /\ a.kind = "send"
          /\ Cardinality(vpCrashed \cup {a.job}) <= MaxCrashes
          /\ vpActivities' = vpActivities (-) One(a)
          /\ vpCrashed' = vpCrashed \cup {a.job}
    /\ vpLastSave' = NoVideoSave
    /\ UNCHANGED <<currentIndex, processingStatus, currentFramesRef, frameIdRef, vpVideo,
                   vpCommands, vpSkipped, vpSession, vpGaveUp>>
    /\ UNCHANGED vpRest

\* requestAnimationFrame calls processFrame.
VPAnimationFrame ==
    /\ mode = "training"
    /\ \E a \in BagToSet(vpActivities) :
          /\ a.kind = "raf"
          /\ processFrame(a.job, 0, vpVideo, vpActivities (-) One(a))
    /\ UNCHANGED <<currentIndex, processingStatus, frameIdRef, vpCommands, vpSkipped,
                   vpSession, vpCrashed, vpGaveUp>>
    /\ UNCHANGED vpRest

\* The play() of the zero-frame retry resolves: processFrame restarts the loop.
VPRetryPlayResolved ==
    /\ mode = "training"
    /\ \E a \in BagToSet(vpActivities), video \in {"playing", "ended"} :
          /\ a.kind = "loopplay"
          /\ processFrame(a.job, a.n, video, vpActivities (-) One(a))
    /\ UNCHANGED <<currentIndex, processingStatus, frameIdRef, vpCommands, vpSkipped,
                   vpSession, vpCrashed, vpGaveUp>>
    /\ UNCHANGED vpRest

\* The play() of the zero-frame retry rejects: logged, the loop ends.
VPRetryPlayRejected ==
    /\ mode = "training"
    /\ \E a \in BagToSet(vpActivities) :
          /\ a.kind = "loopplay"
          /\ vpActivities' = vpActivities (-) One(a)
    /\ vpLastSave' = NoVideoSave
    /\ UNCHANGED <<currentIndex, processingStatus, currentFramesRef, frameIdRef, vpVideo,
                   vpCommands, vpSkipped, vpSession, vpCrashed, vpGaveUp>>
    /\ UNCHANGED vpRest

\* The playing video reaches its end.
VPVideoEnded ==
    /\ mode = "training"
    /\ vpVideo = "playing"
    /\ vpVideo' = "ended"
    /\ vpLastSave' = NoVideoSave
    /\ UNCHANGED <<currentIndex, processingStatus, currentFramesRef, frameIdRef,
                   vpActivities, vpCommands, vpSkipped, vpSession, vpCrashed, vpGaveUp>>
    /\ UNCHANGED vpRest

VideoNext ==
    \/ VPStartProcessing
    \/ VPSkipNext
    \/ VPPrev
    \/ VPPlayResolved
    \/ VPPlayRejected
    \/ VPSafetyTimeout
    \/ VPAdvance
    \/ VPSendReturn
    \/ VPSendThrow
    \/ VPAnimationFrame
    \/ VPRetryPlayResolved
    \/ VPRetryPlayRejected
    \/ VPVideoEnded

(***************************************************************************)
(* MediaPipeService: the holistic engine and the camera behind one object. *)
(* Instances are numbered in the order of their construction.              *)
(***************************************************************************)
SvcInit ==
    /\ svcHolistic = 0
    /\ svcCamera = 0
    /\ isInitialized = FALSE
    /\ svcCreated = [engines |-> 0, cameras |-> 0]
    /\ svcRunning = {}
    /\ svcCloses = [e \in 1..MaxServiceInits |-> 0]
    /\ svcSends = {}
    /\ svcCompleted = FALSE
    /\ svcLast = [call |-> "none", outcome |-> "none", prev |-> "none"]
    /\ svcCalls = 0

\* A call of the service is recorded.
Called(call, outcome) ==
    /\ svcCalls < MaxServiceCalls
    /\ svcCalls' = svcCalls + 1
    /\ svcLast' = [call |-> call, outcome |-> outcome, prev |-> svcLast.call]

\* initialize: new Holistic, setOptions, onResults, new Camera,
\* isInitialized = true; an exception is logged and thrown again.
\*   "engine throws" : the Holistic constructor throws, nothing was assigned
\*   "setup throws"  : setOptions, onResults or the Camera constructor throws
\*                     after this.holistic was assigned
\*   "initialized"   : all of it ran
initialize ==
    /\ mode = "service"
    /\ \E outcome \in {"engine throws", "setup throws", "initialized"} :
          /\ Called("initialize", outcome)
          /\ CASE outcome = "engine throws" ->
                    UNCHANGED <<svcHolistic, svcCamera, isInitialized, svcCreated, svcCompleted>>
               [] outcome = "setup throws" ->
                    /\ svcCreated.engines < MaxServiceInits
                    /\ svcHolistic' = svcCreated.engines + 1
                    /\ svcCreated' = [svcCreated EXCEPT !.engines = @ + 1]
                    /\ UNCHANGED <<svcCamera, isInitialized, svcCompleted>>
               [] outcome = "initialized" ->
                    /\ svcCreated.engines < MaxServiceInits
                    /\ svcHolistic' = svcCreated.engines + 1
                    /\ svcCamera' = svcCreated.cameras + 1
                    /\ svcCreated' = [engines |-> svcCreated.engines + 1,
                                      cameras |-> svcCreated.cameras + 1]
                    /\ isInitialized' = TRUE
                    /\ svcCompleted' = TRUE
    /\ UNCHANGED <<svcRunning, svcCloses, svcSends>>
    /\ UNCHANGED svcRest

\* start: if (this.camera && this.isInitialized) await this.camera.start();
\* else throw 'MediaPipe not initialized'.  camera.start() itself can reject.
start ==
    /\ mode = "service"
    /\ IF svcCamera # 0 /\ isInitialized
       THEN \E outcome \in {"started", "camera error"} :
               /\ Called("start", outcome)
               /\ svcRunning' = IF outcome = "started"
                                THEN svcRunning \cup {svcCamera} ELSE svcRunning
       ELSE /\ Called("start", "MediaPipe not initialized")
            /\ UNCHANGED svcRunning
    /\ UNCHANGED <<svcHolistic, svcCamera, isInitialized, svcCreated, svcCloses, svcSends,
                   svcCompleted>>
    /\ UNCHANGED svcRest

\* stop: if (this.camera) this.camera.stop().
StoppedCameras == IF svcCamera # 0 THEN svcRunning \ {svcCamera} ELSE svcRunning

stop ==
    /\ mode = "service"
    /\ Called("stop", "none")
    /\ svcRunning' = StoppedCameras
    /\ UNCHANGED <<svcHolistic, svcCamera, isInitialized, svcCreated, svcCloses, svcSends,
                   svcCompleted>>
    /\ UNCHANGED svcRest

\* cleanup written without `this.holistic = null`.
cleanupFieldsKeepHolistic ==
    [holistic |-> svcHolistic, camera |-> 0, isInitialized |-> FALSE]

\* cleanup written without `this.camera = null; this.isInitialized = false`.
cleanupFieldsKeepCamera ==
    [holistic |-> 0, camera |-> svcCamera, isInitialized |-> isInitialized]

\* The fields as cleanup leaves them: holistic, camera null, isInitialized false.
cleanupFields ==
    [holistic |-> 0, camera |-> 0, isInitialized |-> FALSE]

\* cleanup: stop(); close the engine if there is one; reset the fields.
cleanup ==
    /\ mode = "service"
    /\ Called("cleanup", "none")
    /\ svcRunning' = StoppedCameras
    /\ svcCloses' = IF svcHolistic # 0
                    THEN [svcCloses EXCEPT ![svcHolistic] = @ + 1] ELSE svcCloses
    /\ svcHolistic' = cleanupFields.holistic
    /\ svcCamera' = cleanupFields.camera
    /\ isInitialized' = cleanupFields.isInitialized
    /\ svcCompleted' = FALSE
    /\ UNCHANGED <<svcCreated, svcSends>>
    /\ UNCHANGED svcRest

\* onFrame of a started camera: if (this.holistic) await this.holistic.send(...).
\* The callback reads this.holistic when it runs.
SvcCameraFrame ==
    /\ mode = "service"
    /\ \E c \in svcRunning :
          /\ svcHolistic # 0
          /\ svcSends' = svcSends \cup {[engine |-> svcHolistic,
                                         closed |-> svcCloses[svcHolistic] > 0]}
          /\ svcSends' # svcSends
    /\ UNCHANGED <<svcHolistic, svcCamera, isInitialized, svcCreated, svcRunning, svcCloses,
                   svcCompleted, svcLast, svcCalls>>
    /\ UNCHANGED svcRest

ServiceNext ==
    \/ initialize
    \/ start
    \/ stop
    \/ cleanup
    \/ SvcCameraFrame

vars == <<mode, kpVars, liveVars, dpVars, vpVars, svcVars>>

Init ==
    /\ mode \in {"deaf", "processing", "training"}
    /\ kpResults = EngineResults({}, 1)
    /\ kpBuffer = <<>>
    /\ kpPath = "none"
    /\ LiveInit
    /\ DPInit
    /\ VPInit
    /\ SvcInit

Next ==
    \/ LiveNext
    \/ DatasetNext
    \/ VideoNext

Spec == Init /\ [][Next]_vars

(***************************************************************************)
(* The specification of the keypoint extraction alone: one engine result   *)
(* of every detection combination, taken through each of the three         *)
(* extractors.                                                             *)
(***************************************************************************)
InitKeypoints ==
    /\ mode = "deaf"
    /\ KPInit
    /\ LiveInit
    /\ DPInit
    /\ VPInit
    /\ SvcInit

NextKeypoints ==
    \/ KPDeafResult
    \/ KPDatasetResult
    \/ KPVideoResult
    \/ KPServiceResult

SpecKeypoints == InitKeypoints /\ [][NextKeypoints]_vars

(***************************************************************************)
(* The specifications of one component each.                               *)
(***************************************************************************)
InitService ==
    /\ mode = "service"
    /\ kpResults = EngineResults({}, 1)
    /\ kpBuffer = <<>>
    /\ kpPath = "none"
    /\ LiveInit
    /\ DPInit
    /\ VPInit
    /\ SvcInit

SpecService == InitService /\ [][ServiceNext]_vars

InitLive == Init /\ mode = "deaf"

SpecLive == InitLive /\ [][LiveNext]_vars

\* The scheduling the live component can rely on: React commits pending
\* state updates, and every outstanding request or timer of stopRecording
\* and processDemoSign returns or fails.  The buttons, the keys and the
\* camera are the environment's affair and have no fairness.
LiveFairness ==
    /\ WF_vars(LiveRender)
    /\ WF_vars(RecognizeReturn)
    /\ WF_vars(TranslateReturn)
    /\ WF_vars(DemoDelayDone)
    /\ WF_vars(DemoTranslateDone)

SpecLiveFair == InitLive /\ [][LiveNext]_vars /\ LiveFairness

InitDataset == Init /\ mode = "processing"

SpecDataset == InitDataset /\ [][DatasetNext]_vars

\* The scheduling DatasetProcessor can rely on: a continuation, timer or
\* frame callback that is due runs; play() settles or the element reports an
\* error; a send and a save request return or fail.  Whether a playing source
\* reaches its end or stalls is the source's affair: DPVideoEnded and
\* DPVideoStalled have no fairness.
DatasetFairness ==
    /\ WF_vars(DPNextVideo)
    /\ WF_vars(DPPlay \/ DPPlayRejected \/ DPVideoError)
    /\ WF_vars(DPFrameCallback)
    /\ WF_vars(DPSendReturn \/ DPSendThrow)
    /\ WF_vars(DPSaveDone)
    /\ WF_vars(DPJobResolved)
    /\ WF_vars(DPDelayDone)

SpecDatasetFair == InitDataset /\ [][DatasetNext]_vars /\ DatasetFairness

InitVideo == Init /\ mode = "training"

SpecVideo == InitVideo /\ [][VideoNext]_vars

\* The scheduling VideoProcessor can rely on: play() settles, a timer that
\* was set fires, a send returns or throws, an animation frame that was
\* requested comes, a playing source reaches its end.  The buttons are the
\* user's affair: VPStartProcessing, VPSkipNext and VPPrev have no fairness.
VideoFairness ==
    /\ WF_vars(VPPlayResolved \/ VPPlayRejected)
    /\ WF_vars(VPSafetyTimeout)
    /\ WF_vars(VPAdvance)
    /\ WF_vars(VPSendReturn \/ VPSendThrow)
    /\ WF_vars(VPAnimationFrame)
    /\ WF_vars(VPRetryPlayResolved \/ VPRetryPlayRejected)
    /\ WF_vars(VPVideoEnded)

SpecVideoFair == InitVideo /\ [][VideoNext]_vars /\ VideoFairness

(***************************************************************************)
(* Properties.                                                             *)
(***************************************************************************)

\* C1: every frame appended to a session buffer, by the live recording, by
\* DatasetProcessor or by VideoProcessor, has exactly 543 keypoint triples,
\* whichever of the four landmark groups the engine detected.
C1_FrameHas543Keypoints ==
    \A i \in 1..Len(kpBuffer) : Len(kpBuffer[i].keypoints) = KeypointCount

\* A frame DatasetProcessor appended from a result with a pose but no face.
C1_Witness ==
    /\ kpPath = "dataset"
    /\ Len(kpBuffer) = 1
    /\ kpResults.poseLandmarks.present
    /\ ~kpResults.faceLandmarks.present

ContiguousIds(frames) == \A i \in 1..Len(frames) : frames[i].frame_id = i - 1

\* C2: in every session, live or batch, the frame_id values of the buffered
\* frames are 0..N-1 in buffer order, N the buffer length: no gap, no duplicate.
C2_FrameIdsContiguous ==
    /\ ContiguousIds(framesRef)
    /\ ContiguousIds(dpFrames)
    /\ ContiguousIds(currentFramesRef)

\* VideoProcessor holds two frames in the session of its second job.
C2_Witness ==
    /\ mode = "training"
    /\ vpSession = 1
    /\ Len(currentFramesRef) = 2

\* C3: in batch mode no save request is made with an empty frame list.
C3_NoEmptySave ==
    /\ dpLastSave.video # NoJob => Len(dpLastSave.frames) > 0
    /\ vpLastSave.label # NoJob => Len(vpLastSave.frames) > 0

\* A DatasetProcessor job whose video ended with no frame collected is resolved
\* and no save request was made for it.
C3_Witness ==
    /\ mode = "processing"
    /\ dpPC = "resolved"
    /\ dpVideoEl = "ended"
    /\ dpFrames = <<>>
    /\ dpLastSave = NoSave

\* C4: stop called twice in immediate succession while recording makes exactly
\* one recognition submission for the recording cycle: no two submissions
\* carry the same cycle.
C4_OneSubmissionPerCycle ==
    \A i, j \in 1..Len(liveSubmissions) :
        liveSubmissions[i].cycle = liveSubmissions[j].cycle => i = j

\* The sends of VideoProcessor's frame loops that are outstanding.
VideoSends == [a \in {x \in BagToSet(vpActivities) : x.kind = "send"} |-> vpActivities[a]]

\* C5: in batch mode two sends are never outstanding on the engine at the
\* same time, neither in DatasetProcessor nor in VideoProcessor.
C5_OneSendOutstanding ==
    /\ Cardinality(dpSends) <= 1
    /\ BagCardinality(VideoSends) <= 1

\* The activities of VideoProcessor that can still send to the engine or write
\* the session buffer: playVideo chains, watchdogs and frame loops.
VideoWorkers == {a \in BagToSet(vpActivities) : a.kind # "advance"}

\* C6: batch jobs are serialized: while a loop, watchdog or send of one job
\* is pending, no such activity of another job exists.
C6_JobsSerialized ==
    /\ dpPC = "job" => \A s \in dpSends : s.job = dpI
    /\ \A a, b \in VideoWorkers : a.job = b.job

\* C7: a DatasetProcessor run without a fatal engine error over M videos ends
\* with exactly floor(M / 20) engine recycles, whatever an earlier run counted.
C7_RecyclesPerRun ==
    (dpPC = "idle" /\ dpRuns > 0 /\ dpRunCrashes = 0)
        => dpRunRecycles = NumVideos \div RecyclePeriod

\* C8: the job that follows a job whose send threw starts on an engine
\* instance that has never been sent a frame.
C8_FreshEngineAfterCrash ==
    (dpPC = "job" /\ dpPrevCrashed) => ~dpUsedBefore

\* C9: no save request carries the label of a job that was given up, after
\* its retries, without a frame.
C9_NoSaveForGivenUpJob == vpLastSave.label \notin vpGaveUp

\* C10: the ended-or-paused path of a frame loop replays its job at most
\* MaxRetries times, like the watchdog path.
C10_ReplaysBounded ==
    \A a \in BagToSet(vpActivities) : a.kind = "loopplay" => a.n <= MaxRetries


\* C11: a save request of VideoProcessor carries the label of the job whose
\* session the buffer belongs to: no loop or timer of an earlier job persists
\* the buffer after processNextVideo has reset it for a later job.
C11_SaveCarriesOwnSession ==
    vpLastSave.label # NoJob => vpLastSave.label = vpSession


\* C12: a step that appends a frame to a session buffer delivers the result
\* of a send issued by the job the buffer belongs to: the result of a send
\* issued before the buffer was reset for the next job is not appended.
C12_StaleResultIgnored ==
    [][/\ Len(dpFrames') > Len(dpFrames) => dpFrames'[Len(dpFrames')].origin = dpI
       /\ Len(currentFramesRef') > Len(currentFramesRef) =>
              \E a \in BagToSet(vpActivities) :
                 /\ a.kind = "send"
                 /\ a.n = vpSession
                 /\ vpActivities' = (vpActivities (-) One(a))
                                       (+) One(Activity("raf", a.job, 0))]_vars


\* C13: after Skip Next has abandoned a processing job, no save request is
\* made with that job's label and no frame loop of that job issues a send
\* (an outstanding send of the job was issued in the job's own session).
C13_SkipAbandonsJob ==
    /\ vpLastSave.label # NoJob => vpLastSave.label # vpSkipped
    /\ \A a \in BagToSet(vpActivities) :
          (a.kind = "send" /\ a.job = vpSkipped) => a.n = vpSkipped


\* C14: a Prev click that moves the index from i to i - 1 starts the
\* processing of job i - 1 again: processNextVideo resets the session for it.
C14_PrevRestartsPrevious ==
    [][(vpCommands'.move > vpCommands.move /\ currentIndex' < currentIndex)
          => (vpSession' = currentIndex' /\ currentFramesRef' = <<>>
              /\ \E a \in BagToSet(vpActivities') :
                     a = Activity("starting", currentIndex', 0)
                     /\ vpActivities'[a] > (IF a \in BagToSet(vpActivities)
                                            THEN vpActivities[a] ELSE 0))]_vars


\* C15: at most one engine instance is open at any moment: initializing the
\* live camera again after an initialization that failed, or that has not yet
\* been rendered, leaves no second open instance.
C15_OneOpenEngine == liveEngines <= 1


\* Activity a of VideoProcessor is added by the step.
VideoAdds(a) ==
    /\ a \in BagToSet(vpActivities')
    /\ vpActivities'[a] > (IF a \in BagToSet(vpActivities) THEN vpActivities[a] ELSE 0)

\* Activity a of VideoProcessor is taken away by the step.
VideoRemoves(a) ==
    /\ a \in BagToSet(vpActivities)
    /\ vpActivities[a] > (IF a \in BagToSet(vpActivities') THEN vpActivities'[a] ELSE 0)

\* C16: once a send of a batch job has thrown, no step issues another send
\* for that job, and no step replays it: no playVideo retry and no replay of
\* the frame loop is started for it.
C16_NoSendAfterCrash ==
    [][/\ dpSends' \ dpSends # {} => ~dpJobCrashed
       /\ \A a \in BagToSet(vpActivities') :
             (VideoAdds(a) /\ a.job \in vpCrashed)
                => ~(\/ a.kind = "send"
                     \/ a.kind = "loopplay"
                     \/ a.kind = "starting" /\ a.n > 0)]_vars


\* C17: under fair scheduling a started run of DatasetProcessor reaches the
\* end of its video list, whatever the outcome of each job, a source that
\* never ends included (a job whose buffer has reached the model's MaxFrames
\* is not followed further).
C17_RunReachesEnd == (dpPC # "idle") ~> (dpPC = "idle" \/ Len(dpFrames) = MaxFrames)


\* C18: when the save request of a batch job settles, by success or by
\* failure, the queue moves on: DatasetProcessor resolves the job and
\* VideoProcessor advances the index by one.
C18_SaveFailureAdvances ==
    [][/\ (dpSaving /\ ~dpSaving' /\ dpPC = "job") => dpPC' = "resolved"
       /\ \A a \in BagToSet(vpActivities) :
             (a.kind = "advance" /\ a.n = 1 /\ VideoRemoves(a))
                => currentIndex' = currentIndex + 1]_vars

\* The save request of a DatasetProcessor job has failed and the job is
\* resolved all the same.
C18_Witness ==
    /\ mode = "processing"
    /\ dpLastSave.outcome = "failed"
    /\ dpPC = "resolved"


\* C19: a step in which the source of a batch job fails to load or to start
\* playing ends the job: no retry is scheduled and no save request is made,
\* DatasetProcessor resolves the job and VideoProcessor schedules the advance
\* of the index.
C19_LoadFailureEndsJob ==
    [][/\ (dpPC = "job" /\ dpVideoEl = "loading" /\ dpVideoEl' \in {"error", "paused"})
             => (dpPC' = "resolved" /\ dpLastSave' = NoSave /\ dpSends' = dpSends)
       /\ \A a \in BagToSet(vpActivities) :
             (a.kind = "starting" /\ VideoRemoves(a)
              /\ ~VideoAdds(Activity("watchdog", a.job, a.n)))
                => /\ VideoAdds(Activity("advance", a.job, 0))
                   /\ ~VideoAdds(Activity("starting", a.job, a.n + 1))
                   /\ vpLastSave' = NoVideoSave]_vars


\* C20: in live mode startRecording leaves the session buffer empty and the
\* frame counter at 0 whatever they held before, and every engine result
\* delivered while recording appends exactly one frame and raises the counter
\* by one.
C20_StartClearsResultAppends ==
    [][/\ liveCycle' # liveCycle => (framesRef' = <<>> /\ frameCountRef' = 0)
       /\ (liveSend # {} /\ liveSend' = {} /\ isRecordingRef)
             => /\ Len(framesRef') = Len(framesRef) + 1
                /\ SubSeq(framesRef', 1, Len(framesRef)) = framesRef
                /\ frameCountRef' = frameCountRef + 1]_vars

\* The second recording cycle, started after a first one that had collected
\* frames, holds one frame, numbered 0, with the counter at 1.
C20_Witness ==
    /\ mode = "deaf"
    /\ liveCycle = 2
    /\ Len(liveSubmissions) > 0
    /\ isRecordingRef
    /\ Len(framesRef) = 1
    /\ framesRef[1].frame_id = 0
    /\ frameCountRef = 1


\* C21: the frame list stopRecording hands to the recognition call is the
\* session buffer of its cycle, frames 0..N-1 in delivery order, and it stays
\* equal to that buffer until the next startRecording: a result delivered
\* after the stop neither joins nor alters it.
C21_SubmissionIsSessionBuffer ==
    \A i \in 1..Len(liveSubmissions) :
        /\ Len(liveSubmissions[i].frames) > 0
        /\ ContiguousIds(liveSubmissions[i].frames)
        /\ liveSubmissions[i].cycle = liveCycle => liveSubmissions[i].frames = framesRef

\* The second cycle was stopped with two frames and submitted, and a send to
\* the engine is outstanding after the stop.
C21_Witness ==
    /\ mode = "deaf"
    /\ liveCycle = 2
    /\ ~isRecordingRef
    /\ liveSend # {}
    /\ \E i \in 1..Len(liveSubmissions) :
          liveSubmissions[i].cycle = 2 /\ Len(liveSubmissions[i].frames) = 2


\* C22: the displayed recognition result is empty or belongs to the current
\* recording cycle: startRecording clears it, and no response of an earlier
\* cycle, or of an earlier stopRecording call, writes it after a later
\* startRecording.
C22_ResultOfCurrentCycle == recognizedText # 0 => recognizedText = liveCycle


\* C23: every extraction path concatenates the four landmark groups in the
\* same order: the keypoint vector built from an engine result is the one the
\* live recording builds from that result, whichever path built it.
C23_SameGroupOrder ==
    \A i \in 1..Len(kpBuffer) : kpBuffer[i].keypoints = DeafExtractKeypoints(kpResults)


\* The landmark group g of an engine result.
GroupOf(results, g) ==
    CASE g = "pose" -> results.poseLandmarks [] g = "face" -> results.faceLandmarks
      [] g = "left" -> results.leftHandLandmarks [] g = "right" -> results.rightHandLandmarks

\* The number of triples before group g in the order pose, face, left, right.
GroupStart(g) ==
    CASE g = "pose" -> 0 [] g = "face" -> PoseCount
      [] g = "left" -> PoseCount + FaceCount
      [] g = "right" -> PoseCount + FaceCount + HandCount

\* C24: in a frame built by the live recording or by DatasetProcessor, the
\* index range of every group that was not detected holds (0,0,0) throughout
\* and the range of every detected group holds that group's points, unchanged
\* and in order.
C24_ZeroFillPerGroup ==
    kpPath \in {"deaf", "dataset"} =>
        \A i \in 1..Len(kpBuffer) :
            /\ Len(kpBuffer[i].keypoints) = KeypointCount
            /\ \A g \in Groups : \A j \in 1..NominalSize(g) :
                  kpBuffer[i].keypoints[GroupStart(g) + j] =
                      IF GroupOf(kpResults, g).present
                      THEN <<GroupOf(kpResults, g).landmarks[j].x,
                             GroupOf(kpResults, g).landmarks[j].y,
                             GroupOf(kpResults, g).landmarks[j].z>>
                      ELSE ZeroTriple

\* A frame of the live recording built from a result with the pose and both
\* hands but no face: 468 zero triples and 75 copied ones.
C24_Witness ==
    /\ kpPath = "deaf"
    /\ Len(kpBuffer) = 1
    /\ kpResults.poseLandmarks.present
    /\ kpResults.leftHandLandmarks.present
    /\ kpResults.rightHandLandmarks.present
    /\ ~kpResults.faceLandmarks.present
    /\ Cardinality({j \in 1..KeypointCount : kpBuffer[1].keypoints[j] = ZeroTriple}) = FaceCount


\* `new` is `old`, or `old` with one frame appended.
Appended(old, new) ==
    /\ Len(new) \in {Len(old), Len(old) + 1}
    /\ SubSeq(new, 1, Len(old)) = old

\* C25: the session buffer is append-only.  Every step leaves the frames
\* already in the buffer where they are and adds at most one after them,
\* unless the step starts a session (startRecording, the next video of
\* DatasetProcessor, processNextVideo), which is the only one that empties it.
C25_BufferAppendOnly ==
    [][/\ \/ Appended(framesRef, framesRef')
          \/ (liveCycle' # liveCycle /\ framesRef' = <<>>)
       /\ \/ Appended(dpFrames, dpFrames')
          \/ (dpPC = "next" /\ dpVideoEl' = "loading" /\ dpFrames' = <<>>)
       /\ \/ Appended(currentFramesRef, currentFramesRef')
          \/ /\ currentFramesRef' = <<>>
             /\ vpSession' = currentIndex'
             /\ VideoAdds(playVideo(currentIndex', 0))]_vars

\* The second session of a batch run with two frames appended after its reset.
C25_Witness ==
    /\ mode = "training"
    /\ vpSession = 1
    /\ currentFramesRef = <<[frame_id |-> 0], [frame_id |-> 1]>>


\* C26: in live mode an engine result delivered while no recording is on
\* (before the first start, after stopRecording, while the request is in
\* flight or after its response) changes neither the session buffer nor the
\* frame counter.
C26_IdleResultIgnored ==
    [][(liveSend # {} /\ liveSend' = {} /\ ~isRecordingRef)
          => (framesRef' = framesRef /\ frameCountRef' = frameCountRef)]_vars

\* A stopped recording with one frame whose request is in flight, and an
\* engine result about to be delivered.
C26_Witness ==
    /\ mode = "deaf"
    /\ ~isRecordingRef
    /\ liveSend # {}
    /\ livePending # EmptyBag
    /\ Len(framesRef) = 1
    /\ frameCountRef = 1


\* C27: the watchdog of the job in session, firing while the video is still
\* playing and frames have been collected, does not end the session: the step
\* requests no save and schedules no advance of the index.
C27_WatchdogKeepsSession ==
    [][\A a \in BagToSet(vpActivities) :
          (/\ a.kind = "watchdog"
           /\ VideoRemoves(a)
           /\ a.job = currentIndex
           /\ a.job = vpSession
           /\ vpVideo = "playing"
           /\ Len(currentFramesRef) > 0)
             => /\ vpLastSave' = NoVideoSave
                /\ ~VideoAdds(Activity("advance", a.job, 1))]_vars


\* C28: a watchdog armed for a job, firing after the queue has moved past
\* that job, has no effect: the step only takes the timer away; it starts no
\* replay, requests no save and schedules no advance of the index.
C28_StaleWatchdogInert ==
    [][\A a \in BagToSet(vpActivities) :
          (a.kind = "watchdog" /\ VideoRemoves(a) /\ currentIndex > a.job)
             => /\ vpActivities' = vpActivities (-) One(a)
                /\ vpLastSave' = NoVideoSave
                /\ currentIndex' = currentIndex]_vars


\* C29: a batch job is submitted for saving at most once.  While the save
\* request of a job is still in flight (its advance of the index is pending),
\* no step makes another save request with that job's label.
C29_OneSavePerJob ==
    [][vpLastSave'.label # NoJob
          => ~\E a \in BagToSet(vpActivities) :
                a.kind = "advance" /\ a.n = 1 /\ a.job = vpLastSave'.label]_vars


\* C30: the queue index is advanced once per finished job: a pending advance
\* that was scheduled for a job moves the index only while that job is the
\* current one, so that the index never passes a job that is not finished.
C30_AdvanceOncePerJob ==
    [][\A a \in BagToSet(vpActivities) :
          (a.kind = "advance" /\ VideoRemoves(a) /\ currentIndex' = currentIndex + 1)
             => a.job = currentIndex]_vars


\* C31: when the index has passed the last job of the manifest,
\* VideoProcessor's status eventually becomes 'Processing Complete!'.
C31_CompletionReported ==
    (mode = "training" /\ currentIndex = NumManifest)
        ~> (processingStatus.tag = "Processing Complete!")


\* C32 as stated: in live mode the stop of a recording that collected no
\* frame makes no recognition submission, records the error 'No frames
\* recorded' and leaves the controller not processing.
C32_EmptyStopReportsError ==
    [][(mode = "deaf" /\ isRecordingRef /\ ~isRecordingRef' /\ Len(framesRef) = 0)
          => /\ liveSubmissions' = liveSubmissions
             /\ livePending' = livePending
             /\ error' = "No frames recorded"
             /\ ~isProcessing']_vars

\* C32, amended: the same, for a stop with no demo override queued.
C32_EmptyStopWithoutOverride ==
    [][(/\ mode = "deaf"
        /\ isRecordingRef
        /\ ~isRecordingRef'
        /\ Len(framesRef) = 0
        /\ ~demoOverrideRef)
          => /\ liveSubmissions' = liveSubmissions
             /\ livePending' = livePending
             /\ error' = "No frames recorded"
             /\ ~isProcessing']_vars

\* The first recording was stopped without a frame and without an override:
\* the error is recorded, nothing was submitted, the controller is not processing.
C32_Witness ==
    /\ mode = "deaf"
    /\ liveCycle = 1
    /\ ~isRecordingRef
    /\ ~demoOverrideRef
    /\ framesRef = <<>>
    /\ error = "No frames recorded"
    /\ ~isProcessing
    /\ liveSubmissions = <<>>
    /\ livePending = EmptyBag


\* C33: in live mode the controller never stays processing: whenever
\* isProcessing is set it is eventually cleared, whether the recognition
\* request succeeds, returns no prediction or throws, whether the demo
\* override ran, or no frame was recorded.
C33_ProcessingEnds == (mode = "deaf" /\ isProcessing) ~> ~isProcessing

\* A recognition request of the first cycle has thrown, and the controller is
\* no longer processing.
C33_Witness ==
    /\ mode = "deaf"
    /\ Len(liveSubmissions) = 1
    /\ error = "Processing failed"
    /\ livePending = EmptyBag
    /\ ~isRecording
    /\ ~isProcessing


\* The processDemoSign calls in flight.
DemoRuns(pending) ==
    {p \in BagToSet(pending) : p.kind \in {"demoDelay", "demoTranslate"}}

\* C34: a queued demo override is consumed by one stop.  The stop that
\* starts processDemoSign makes no recognition submission and finds no other
\* processDemoSign in flight; when processDemoSign finishes the override is
\* cleared; and a stop that finds no override and a non-empty buffer submits
\* the buffer.
C34_OverrideConsumedOnce ==
    [][/\ BagCardinality(livePending') > BagCardinality(livePending) /\ demoOverrideRef
            => /\ liveSubmissions' = liveSubmissions
               /\ DemoRuns(livePending) = {}
       /\ (\E p \in DemoRuns(livePending) : p.kind = "demoTranslate" /\ livePending' = livePending (-) SetToBag({p}))
            => ~demoOverrideRef'
       /\ (/\ rendered.isRecording
           /\ isRecording
           /\ ~isRecording'
           /\ ~demoOverrideRef
           /\ Len(framesRef) > 0)
            => liveSubmissions' = Append(liveSubmissions, [cycle |-> liveCycle, frames |-> framesRef])]_vars


\* C35: MediaPipeService.start() starts the camera only when an initialize()
\* has completed and cleanup() was not called since; in every other state
\* (never initialized, initialize failed, after cleanup) it throws
\* 'MediaPipe not initialized' and starts no camera.
C35_StartNeedsInitialize ==
    [][(svcCalls' # svcCalls /\ svcLast'.call = "start")
          => IF svcCompleted
             THEN svcLast'.outcome \in {"started", "camera error"}
             ELSE /\ svcLast'.outcome = "MediaPipe not initialized"
                  /\ svcRunning' = svcRunning]_vars

\* start() called right after the cleanup() of a service whose camera had
\* been started: it throws and no camera runs.
C35_Witness ==
    /\ mode = "service"
    /\ svcLast = [call |-> "start", outcome |-> "MediaPipe not initialized", prev |-> "cleanup"]
    /\ svcCloses[1] = 1
    /\ svcSends # {}
    /\ svcRunning = {}

\* C36: no camera frame callback issues a send to an engine that cleanup()
\* has closed, no engine is closed twice, and a cleanup() that follows a
\* cleanup() closes nothing and leaves the fields as they are.
C36_CleanupFinalAndIdempotent ==
    [][/\ \A s \in svcSends' : ~s.closed
       /\ \A e \in 1..MaxServiceInits : svcCloses'[e] <= 1
       /\ (svcCalls' # svcCalls /\ svcLast'.call = "cleanup" /\ svcLast'.prev = "cleanup")
            => /\ svcCloses' = svcCloses
               /\ svcRunning' = svcRunning
               /\ <<svcHolistic', svcCamera', isInitialized'>>
                     = <<svcHolistic, svcCamera, isInitialized>>
               /\ <<svcHolistic', svcCamera', isInitialized'>> = <<0, 0, FALSE>>]_vars

\* cleanup() called twice in a row on a service whose engine had received a
\* send: the engine was closed once.
C36_Witness ==
    /\ mode = "service"
    /\ svcLast = [call |-> "cleanup", outcome |-> "none", prev |-> "cleanup"]
    /\ svcSends = {[engine |-> 1, closed |-> FALSE]}
    /\ svcCloses[1] = 1
    /\ svcHolistic = 0

=============================================================================
